---- MODULE Spec2Model ----
(***************************************************************************)
(* Model of envoy-exporter: the scrape loop, one scrape cycle against the  *)
(* Envoy client and the InfluxDB writer, the point builders and the        *)
(* loading of the configuration of src/main.go, and the context-aware      *)
(* scrape loop, scrape, point builders and configuration check of          *)
(* src/unnamed/part_000.  Time is counted in whole seconds.                *)
(***************************************************************************)
EXTENDS Integers, Sequences, FiniteSets, TLC

\* ---------------------------------------------------------------- bounds
\* The clock stops the exploration at MaxTime seconds.
MaxTime == 4
\* A device or sink call takes between 0 and MaxCallTime seconds.
MaxCallTime == 1
\* Largest configured scrape interval explored, in seconds.
MaxInterval == 2

\* Longest list of measurements, inverters or batteries handed to a point builder.
MaxMeasures == 2
\* Largest number of lines in one measurement handed to a point builder.
MaxLines == 2

\* The clock of the context-aware program stops the exploration at CtxMaxTime
\* seconds (it has to pass the 5-second backoff).
CtxMaxTime == 6

\* ------------------------------------------------------------- constants
\* time.Sleep(time.Second * 1) before reconnecting.
ReconnectPause == 1

\* the configuration file once main has read and closed it
NoFile == [state |-> "closed"]

\* ------------------------------------------------------- telemetry inputs
Line(w) == [WNow |-> w, ReactPwr |-> 0, ApprntPwr |-> 0, RmsCurrent |-> 0, RmsVoltage |-> 0]

Measurement(t, ls) == [MeasurementType |-> t, Lines |-> ls]

\* A *envoy.ProductionResponse: isNil models the nil pointer.
ProductionResponse(p, c) == [isNil |-> FALSE, Production |-> p, Consumption |-> c]

NilProduction == [isNil |-> TRUE, Production |-> <<>>, Consumption |-> <<>>]

\* A *[]envoy.Inverter or *[]envoy.Battery: isNil models the nil pointer.
ListPtr(l) == [isNil |-> FALSE, list |-> l]

NilList == [isNil |-> TRUE, list |-> <<>>]

Inverter(s, w) == [SerialNumber |-> s, LastReportWatts |-> w]

Battery(s, pf, t) == [SerialNum |-> s, PercentFull |-> pf, Temperature |-> t]

\* Values the Production endpoint may hand back.
ProductionValues ==
  { NilProduction,
    ProductionResponse(<<>>, <<>>),
    ProductionResponse(<<Measurement("production", <<Line(100)>>)>>, <<>>),
    ProductionResponse(<<Measurement("production", <<>>)>>, <<>>),
    ProductionResponse(<<Measurement("inverters", <<Line(7)>>)>>, <<>>),
    ProductionResponse(<<>>, <<Measurement("total-consumption", <<Line(30)>>)>>),
    ProductionResponse(<<Measurement("production", <<Line(100), Line(50)>>)>>,
                       <<Measurement("total-consumption", <<Line(30)>>),
                         Measurement("net-consumption", <<Line(20)>>)>>) }

InverterValues ==
  { NilList, ListPtr(<<>>), ListPtr(<<Inverter("inv1", 50)>>),
    ListPtr(<<Inverter("inv1", 50), Inverter("inv2", 60)>>) }

BatteryValues ==
  { NilList, ListPtr(<<>>), ListPtr(<<Battery("bat1", 75, 25)>>),
    ListPtr(<<Battery("bat1", 75, 25), Battery("bat2", 80, 26)>>) }

\* --------------------------------------------------------------- state
VARIABLES
  cfg,                \* the global Config (Interval, SourceTag)
  pc,                 \* position of scrapeLoop / scrape
  now,                \* the wall clock, seconds
  connected,          \* scrapeLoop: connected
  e,                  \* scrapeLoop: the Envoy client in use (0 is nil)
  nClients,           \* number of clients envoy.NewClient has constructed
  invalidated,        \* clients on which InvalidateSession was called
  tStat,              \* scrapeLoop: start time of the current scrape
  timeToSleep,        \* scrapeLoop: remaining time to the next scrape
  calls,              \* device calls of the current scrape, in order
  prod,               \* scrape: result of e.Production()
  inverters,          \* scrape: result of e.Inverters()
  batteries,          \* scrape: result of e.Batteries()
  points,             \* scrape: the batch being built
  writes,             \* WritePoint calls of the current scrape, in order
  numPoints,          \* scrape: returned point count
  clientInvalidated,  \* scrape: returned session-invalid flag
  scrapeDuration,     \* scrapeLoop: time.Since(tStat) after the last scrape
  cancelled,          \* context-aware program: ctx.Done() is closed
  tickPending,        \* context-aware program: a tick is buffered in ticker.C
  file,               \* the configuration file, until it has been read
  configErr           \* the error of loading the configuration ("nil" is none)

vars == <<cfg, pc, now, connected, e, nClients, invalidated, tStat, timeToSleep,
          calls, prod, inverters, batteries, points, writes, numPoints,
          clientInvalidated, scrapeDuration, cancelled, tickPending, file, configErr>>

\* what scrapeLoop and scrape of src/main.go never change
envVars == <<cfg, cancelled, tickPending, file, configErr>>

loopVars == <<connected, e, nClients, tStat, timeToSleep, scrapeDuration>>

scrapeVars == <<calls, prod, inverters, batteries, points, writes, numPoints,
                clientInvalidated, invalidated>>

\* Durations a call may take without passing the end of the explored time.
CallTimes == { d \in 0..MaxCallTime : now + d <= MaxTime }

Call(fn, failed) == [fn |-> fn, err |-> failed]

\* interval := time.Duration(cfg.Interval) * time.Second
interval == cfg.Interval

\* --------------------------------------------------------- point builders
\* Variant of the three AddTag calls that leaves out the source tag.
Tags3_noSource(k1, v1, k2, v2, k3, v3) == (k2 :> v2) @@ (k3 :> v3)

Tags3(k1, v1, k2, v2, k3, v3) == (k1 :> v1) @@ (k2 :> v2) @@ (k3 :> v3)

\* Variant of lineToPoint that stamps the point with the clock at construction
\* instead of the scrape time it is given.
lineToPoint_stampsNow(lineType, line, idx, ts) ==
  [ name   |-> lineType \o "-line" \o ToString(idx),
    tags   |-> Tags3("source", cfg.SourceTag, "measurement-type", lineType,
                     "line-idx", ToString(idx)),
    fields |-> ("P" :> line.WNow) @@ ("Q" :> line.ReactPwr) @@ ("S" :> line.ApprntPwr)
               @@ ("I_rms" :> line.RmsCurrent) @@ ("V_rms" :> line.RmsVoltage),
    time   |-> now ]

lineToPoint(lineType, line, idx, ts) ==
  [ name   |-> lineType \o "-line" \o ToString(idx),
    tags   |-> Tags3("source", cfg.SourceTag, "measurement-type", lineType,
                     "line-idx", ToString(idx)),
    fields |-> ("P" :> line.WNow) @@ ("Q" :> line.ReactPwr) @@ ("S" :> line.ApprntPwr)
               @@ ("I_rms" :> line.RmsCurrent) @@ ("V_rms" :> line.RmsVoltage),
    time   |-> ts ]

\* Variant of LinePoints that emits one point per measurement (its first line)
\* instead of one per line.
LinePoints_onePerMeasure(lineType, lines, ts) ==
  IF lines = <<>> THEN <<>> ELSE <<lineToPoint(lineType, lines[1], 0, ts)>>

\* for i, line := range measure.Lines { ps = append(ps, lineToPoint(t, line, i, ts)) }
LinePoints(lineType, lines, ts) ==
  [ i \in 1..Len(lines) |-> lineToPoint(lineType, lines[i], i - 1, ts) ]

RECURSIVE ProductionLoop(_, _)
ProductionLoop(measures, ts) ==
  IF measures = <<>> THEN <<>>
  ELSE LET measure == Head(measures) IN
       (IF measure.MeasurementType = "production"
          THEN LinePoints("production", measure.Lines, ts) ELSE <<>>)
       \o ProductionLoop(Tail(measures), ts)

RECURSIVE ConsumptionLoop(_, _)
ConsumptionLoop(measures, ts) ==
  IF measures = <<>> THEN <<>>
  ELSE LET measure == Head(measures) IN
       (IF measure.MeasurementType = "total-consumption"
          THEN LinePoints("consumption", measure.Lines, ts) ELSE <<>>)
       \o (IF measure.MeasurementType = "net-consumption"
          THEN LinePoints("net", measure.Lines, ts) ELSE <<>>)
       \o ConsumptionLoop(Tail(measures), ts)

extractProductionStats(p, ts) ==
  ProductionLoop(p.Production, ts) \o ConsumptionLoop(p.Consumption, ts)

\* Variant of extractInverterStats that fills the result from the last entry
\* to the first.
extractInverterStats_reversed(invs, ts) ==
  [ i \in 1..Len(invs.list) |->
      LET inv == invs.list[Len(invs.list) + 1 - i] IN
      [ name   |-> "inverter-production-" \o inv.SerialNumber,
        tags   |-> Tags3("source", cfg.SourceTag, "measurement-type", "inverter",
                         "serial", inv.SerialNumber),
        fields |-> ("P" :> inv.LastReportWatts),
        time   |-> ts ] ]

extractInverterStats(invs, ts) ==
  [ i \in 1..Len(invs.list) |->
      [ name   |-> "inverter-production-" \o invs.list[i].SerialNumber,
        tags   |-> Tags3("source", cfg.SourceTag, "measurement-type", "inverter",
                         "serial", invs.list[i].SerialNumber),
        fields |-> ("P" :> invs.list[i].LastReportWatts),
        time   |-> ts ] ]

extractBatteryStats(bats, ts) ==
  [ i \in 1..Len(bats.list) |->
      [ name   |-> "battery-" \o bats.list[i].SerialNum,
        tags   |-> Tags3("source", cfg.SourceTag, "measurement-type", "battery",
                         "serial", bats.list[i].SerialNum),
        fields |-> ("percent-full" :> bats.list[i].PercentFull)
                   @@ ("temperature" :> bats.list[i].Temperature),
        time   |-> ts ] ]

\* ------------------------------------------------------------------ Init
Init ==
  /\ cfg \in [Interval : 1..MaxInterval, SourceTag : {"test-source"}]
  /\ pc = "loop"
  /\ now = 0
  /\ connected = FALSE
  /\ e = 0
  /\ nClients = 0
  /\ invalidated = {}
  /\ tStat = 0
  /\ timeToSleep = 0
  /\ calls = <<>>
  /\ prod = NilProduction
  /\ inverters = NilList
  /\ batteries = NilList
  /\ points = <<>>
  /\ writes = <<>>
  /\ numPoints = 0
  /\ clientInvalidated = FALSE
  /\ scrapeDuration = 0
  /\ cancelled = FALSE
  /\ tickPending = FALSE
  /\ file = NoFile
  /\ configErr = "nil"

\* ------------------------------------------------------------ scrapeLoop
\* Variant of Connect that waits one interval after a successful construction
\* before the loop goes on.
Connect_waitsFirst ==
  /\ pc = "loop"
  /\ ~connected
  /\ \E d \in CallTimes, failed \in BOOLEAN :
       /\ now' = now + d
       /\ IF failed
            THEN /\ e' = 0
                 /\ UNCHANGED <<connected, nClients>>
            ELSE /\ e' = nClients + 1
                 /\ nClients' = nClients + 1
                 /\ connected' = TRUE
  /\ pc' = "backoff"
  /\ UNCHANGED <<envVars, tStat, timeToSleep, scrapeDuration>>
  /\ UNCHANGED scrapeVars

\* if !connected { e, err = envoy.NewClient(...) ... }
Connect ==
  /\ pc = "loop"
  /\ ~connected
  /\ \E d \in CallTimes, failed \in BOOLEAN :
       /\ now' = now + d
       /\ IF failed
            THEN /\ e' = 0
                 /\ pc' = "backoff"
                 /\ UNCHANGED <<connected, nClients>>
            ELSE /\ e' = nClients + 1
                 /\ nClients' = nClients + 1
                 /\ connected' = TRUE
                 /\ pc' = "loop"
  /\ UNCHANGED <<envVars, tStat, timeToSleep, scrapeDuration>>
  /\ UNCHANGED scrapeVars

\* Variant of Backoff that gives up after the wait: scrapeLoop returns instead
\* of retrying.
Backoff_givesUp ==
  /\ pc = "backoff"
  /\ now + interval <= MaxTime
  /\ now' = now + (IF interval > 0 THEN interval ELSE 0)
  /\ pc' = "exited"
  /\ UNCHANGED envVars
  /\ UNCHANGED loopVars
  /\ UNCHANGED scrapeVars

\* time.Sleep(interval); continue
Backoff ==
  /\ pc = "backoff"
  /\ now + interval <= MaxTime
  /\ now' = now + (IF interval > 0 THEN interval ELSE 0)
  /\ pc' = "loop"
  /\ UNCHANGED envVars
  /\ UNCHANGED loopVars
  /\ UNCHANGED scrapeVars

\* Variant of StartScrape that keeps the batch of the previous cycle when its
\* write failed, so that it is sent again.
StartScrape_keepsBatch ==
  /\ pc = "loop"
  /\ connected
  /\ tStat' = now
  /\ calls' = <<>>
  /\ prod' = NilProduction
  /\ inverters' = NilList
  /\ batteries' = NilList
  /\ points' = IF writes # <<>> /\ writes[Len(writes)].err THEN points ELSE <<>>
  /\ writes' = <<>>
  /\ numPoints' = 0
  /\ clientInvalidated' = FALSE
  /\ scrapeDuration' = 0
  /\ pc' = "CommCheck"
  /\ UNCHANGED <<envVars, now, connected, e, nClients, invalidated, timeToSleep>>

\* Variant of StartScrape that is driven by a timer of its own and may start
\* the next scrape while the previous one is still making its calls.
StartScrape_overlaps ==
  /\ pc \in {"loop", "Production", "Inverters", "Batteries", "WritePoint"}
  /\ connected
  /\ tStat' = now
  /\ calls' = <<>>
  /\ prod' = NilProduction
  /\ inverters' = NilList
  /\ batteries' = NilList
  /\ points' = <<>>
  /\ writes' = <<>>
  /\ numPoints' = 0
  /\ clientInvalidated' = FALSE
  /\ scrapeDuration' = 0
  /\ pc' = "CommCheck"
  /\ UNCHANGED <<envVars, now, connected, e, nClients, invalidated, timeToSleep>>

\* tStat := time.Now(); scrape(e, influxWriter, tStat) is entered
StartScrape ==
  /\ pc = "loop"
  /\ connected
  /\ tStat' = now
  /\ calls' = <<>>
  /\ prod' = NilProduction
  /\ inverters' = NilList
  /\ batteries' = NilList
  /\ points' = <<>>
  /\ writes' = <<>>
  /\ numPoints' = 0
  /\ clientInvalidated' = FALSE
  /\ scrapeDuration' = 0
  /\ pc' = "CommCheck"
  /\ UNCHANGED <<envVars, now, connected, e, nClients, invalidated, timeToSleep>>

\* ---------------------------------------------------------------- scrape
\* Variant of CommCheck that logs the error and invalidates the session but
\* goes on to the fetches instead of returning.
CommCheck_fallsThrough ==
  /\ pc = "CommCheck"
  /\ \E d \in CallTimes, failed \in BOOLEAN :
       /\ now' = now + d
       /\ IF failed
            THEN /\ calls' = calls \o <<Call("CommCheck", TRUE),
                                        Call("InvalidateSession", FALSE)>>
                 /\ invalidated' = invalidated \cup {e}
                 /\ clientInvalidated' = TRUE
                 /\ UNCHANGED numPoints
            ELSE /\ calls' = Append(calls, Call("CommCheck", FALSE))
                 /\ UNCHANGED <<invalidated, clientInvalidated, numPoints>>
  /\ pc' = "Production"
  /\ UNCHANGED <<envVars, prod, inverters, batteries, points, writes>>
  /\ UNCHANGED loopVars

\* cr, err := e.CommCheck(); on error InvalidateSession and return (0, true)
CommCheck ==
  /\ pc = "CommCheck"
  /\ \E d \in CallTimes, failed \in BOOLEAN :
       /\ now' = now + d
       /\ IF failed
            THEN /\ calls' = calls \o <<Call("CommCheck", TRUE),
                                        Call("InvalidateSession", FALSE)>>
                 /\ invalidated' = invalidated \cup {e}
                 /\ clientInvalidated' = TRUE
                 /\ numPoints' = 0
                 /\ pc' = "returned"
            ELSE /\ calls' = Append(calls, Call("CommCheck", FALSE))
                 /\ pc' = "Production"
                 /\ UNCHANGED <<invalidated, clientInvalidated, numPoints>>
  /\ UNCHANGED <<envVars, prod, inverters, batteries, points, writes>>
  /\ UNCHANGED loopVars

\* Variant of Production that marks the session invalid on a fetch error.
Production_invalidates ==
  /\ pc = "Production"
  /\ \E d \in CallTimes, failed \in BOOLEAN, v \in ProductionValues :
       /\ now' = now + d
       /\ calls' = Append(calls, Call("Production", failed))
       /\ prod' = v
       /\ clientInvalidated' = (clientInvalidated \/ failed)
       /\ points' = IF ~v.isNil /\ Len(v.Production) > 0
                      THEN points \o extractProductionStats(v, tStat)
                      ELSE points
  /\ pc' = "Inverters"
  /\ UNCHANGED <<envVars, inverters, batteries, writes, numPoints, invalidated>>
  /\ UNCHANGED loopVars

\* Variant of Production that returns from scrape on a fetch error.
Production_returnsOnError ==
  /\ pc = "Production"
  /\ \E d \in CallTimes, failed \in BOOLEAN, v \in ProductionValues :
       /\ now' = now + d
       /\ calls' = Append(calls, Call("Production", failed))
       /\ prod' = v
       /\ IF failed
            THEN /\ pc' = "returned"
                 /\ UNCHANGED points
            ELSE /\ pc' = "Inverters"
                 /\ points' = IF ~v.isNil /\ Len(v.Production) > 0
                                THEN points \o extractProductionStats(v, tStat)
                                ELSE points
  /\ UNCHANGED <<envVars, inverters, batteries, writes, numPoints, clientInvalidated,
                 invalidated>>
  /\ UNCHANGED loopVars

\* prod, err := e.Production(); append when prod != nil && len(prod.Production) > 0
Production ==
  /\ pc = "Production"
  /\ \E d \in CallTimes, failed \in BOOLEAN, v \in ProductionValues :
       /\ now' = now + d
       /\ calls' = Append(calls, Call("Production", failed))
       /\ prod' = v
       /\ points' = IF ~v.isNil /\ Len(v.Production) > 0
                      THEN points \o extractProductionStats(v, tStat)
                      ELSE points
  /\ pc' = "Inverters"
  /\ UNCHANGED <<envVars, inverters, batteries, writes, numPoints, clientInvalidated,
                 invalidated>>
  /\ UNCHANGED loopVars

\* inverters, err := e.Inverters(); append when inverters != nil && len(*inverters) > 0
\* Variant of Inverters that puts the inverter points in front of the batch.
Inverters_prepends ==
  /\ pc = "Inverters"
  /\ \E d \in CallTimes, failed \in BOOLEAN, v \in InverterValues :
       /\ now' = now + d
       /\ calls' = Append(calls, Call("Inverters", failed))
       /\ inverters' = v
       /\ points' = IF ~v.isNil /\ Len(v.list) > 0
                      THEN extractInverterStats(v, tStat) \o points
                      ELSE points
  /\ pc' = "Batteries"
  /\ UNCHANGED <<envVars, prod, batteries, writes, numPoints, clientInvalidated,
                 invalidated>>
  /\ UNCHANGED loopVars

Inverters ==
  /\ pc = "Inverters"
  /\ \E d \in CallTimes, failed \in BOOLEAN, v \in InverterValues :
       /\ now' = now + d
       /\ calls' = Append(calls, Call("Inverters", failed))
       /\ inverters' = v
       /\ points' = IF ~v.isNil /\ Len(v.list) > 0
                      THEN points \o extractInverterStats(v, tStat)
                      ELSE points
  /\ pc' = "Batteries"
  /\ UNCHANGED <<envVars, prod, batteries, writes, numPoints, clientInvalidated,
                 invalidated>>
  /\ UNCHANGED loopVars

\* Variant of Batteries without the empty-batch return: the sink is called
\* even when no point was collected.
Batteries_alwaysWrites ==
  /\ pc = "Batteries"
  /\ \E d \in CallTimes, failed \in BOOLEAN, v \in BatteryValues :
       /\ now' = now + d
       /\ calls' = Append(calls, Call("Batteries", failed))
       /\ batteries' = v
       /\ points' = IF ~failed /\ ~v.isNil /\ Len(v.list) > 0
                      THEN points \o extractBatteryStats(v, tStat)
                      ELSE points
  /\ pc' = "WritePoint"
  /\ UNCHANGED <<envVars, prod, inverters, writes, numPoints, clientInvalidated,
                 invalidated>>
  /\ UNCHANGED loopVars

\* batteries, err := e.Batteries(); append only when err == nil and the list
\* is non-empty; then return (0, false) if the batch is empty
Batteries ==
  /\ pc = "Batteries"
  /\ \E d \in CallTimes, failed \in BOOLEAN, v \in BatteryValues :
       /\ now' = now + d
       /\ calls' = Append(calls, Call("Batteries", failed))
       /\ batteries' = v
       /\ points' = IF ~failed /\ ~v.isNil /\ Len(v.list) > 0
                      THEN points \o extractBatteryStats(v, tStat)
                      ELSE points
       /\ IF Len(points') = 0
            THEN /\ numPoints' = 0
                 /\ pc' = "returned"
            ELSE /\ pc' = "WritePoint"
                 /\ UNCHANGED numPoints
  /\ UNCHANGED <<envVars, prod, inverters, writes, clientInvalidated, invalidated>>
  /\ UNCHANGED loopVars

\* Variant of WritePoint that sends the batch a second time when the first
\* write fails.
WritePoint_retries ==
  /\ pc = "WritePoint"
  /\ \E d \in CallTimes, failed \in BOOLEAN, failedAgain \in BOOLEAN :
       /\ now' = now + d
       /\ writes' = IF failed
                      THEN writes \o <<[points |-> points, err |-> TRUE],
                                       [points |-> points, err |-> failedAgain]>>
                      ELSE Append(writes, [points |-> points, err |-> FALSE])
  /\ numPoints' = Len(points)
  /\ pc' = "returned"
  /\ UNCHANGED <<envVars, calls, prod, inverters, batteries, points, clientInvalidated,
                 invalidated>>
  /\ UNCHANGED loopVars

\* Variant of WritePoint that invalidates the device session when the write
\* fails.
WritePoint_invalidates ==
  /\ pc = "WritePoint"
  /\ \E d \in CallTimes, failed \in BOOLEAN :
       /\ now' = now + d
       /\ writes' = Append(writes, [points |-> points, err |-> failed])
       /\ IF failed
            THEN /\ calls' = Append(calls, Call("InvalidateSession", FALSE))
                 /\ invalidated' = invalidated \cup {e}
            ELSE UNCHANGED <<calls, invalidated>>
  /\ numPoints' = Len(points)
  /\ pc' = "returned"
  /\ UNCHANGED <<envVars, prod, inverters, batteries, points, clientInvalidated>>
  /\ UNCHANGED loopVars

\* err = influxWriter.WritePoint(ctx, points...); return len(points)
WritePoint ==
  /\ pc = "WritePoint"
  /\ \E d \in CallTimes, failed \in BOOLEAN :
       /\ now' = now + d
       /\ writes' = Append(writes, [points |-> points, err |-> failed])
  /\ numPoints' = Len(points)
  /\ pc' = "returned"
  /\ UNCHANGED <<envVars, calls, prod, inverters, batteries, points, clientInvalidated,
                 invalidated>>
  /\ UNCHANGED loopVars

\* ------------------------------------------------- scrapeLoop, after scrape
\* Variant of ScrapeReturned that pauses after an invalidated session but
\* leaves connected set, so no new client is constructed.
ScrapeReturned_staysConnected ==
  /\ pc = "returned"
  /\ scrapeDuration' = now - tStat
  /\ IF clientInvalidated
       THEN /\ pc' = "pause"
            /\ UNCHANGED <<timeToSleep, connected>>
       ELSE /\ timeToSleep' = tStat + interval - now
            /\ pc' = IF timeToSleep' > 0 THEN "sleep" ELSE "loop"
            /\ UNCHANGED connected
  /\ UNCHANGED <<envVars, now, e, nClients, tStat>>
  /\ UNCHANGED scrapeVars

\* Variant of ScrapeReturned that also reconnects when the sink write failed.
ScrapeReturned_reconnectsOnWriteError ==
  /\ pc = "returned"
  /\ scrapeDuration' = now - tStat
  /\ IF clientInvalidated \/ (writes # <<>> /\ writes[Len(writes)].err)
       THEN /\ connected' = FALSE
            /\ pc' = "pause"
            /\ UNCHANGED timeToSleep
       ELSE /\ timeToSleep' = tStat + interval - now
            /\ pc' = IF timeToSleep' > 0 THEN "sleep" ELSE "loop"
            /\ UNCHANGED connected
  /\ UNCHANGED <<envVars, now, e, nClients, tStat>>
  /\ UNCHANGED scrapeVars

\* Variant of ScrapeReturned that anchors the wait to the end of the scrape:
\* it always sleeps one full interval.
ScrapeReturned_anchoredAtEnd ==
  /\ pc = "returned"
  /\ scrapeDuration' = now - tStat
  /\ IF clientInvalidated
       THEN /\ connected' = FALSE
            /\ pc' = "pause"
            /\ UNCHANGED timeToSleep
       ELSE /\ timeToSleep' = interval
            /\ pc' = IF timeToSleep' > 0 THEN "sleep" ELSE "loop"
            /\ UNCHANGED connected
  /\ UNCHANGED <<envVars, now, e, nClients, tStat>>
  /\ UNCHANGED scrapeVars

\* scrapeDuration := time.Since(tStat)
\* if clientInvalidated { connected = false; sleep 1s; continue }
\* timeToSleep := time.Until(tStat.Add(interval)); sleep if positive
\* Variant of ScrapeReturned that reconnects at once after an invalidated
\* session, without the pause.
ScrapeReturned_noPause ==
  /\ pc = "returned"
  /\ scrapeDuration' = now - tStat
  /\ IF clientInvalidated
       THEN /\ connected' = FALSE
            /\ pc' = "loop"
            /\ UNCHANGED timeToSleep
       ELSE /\ timeToSleep' = tStat + interval - now
            /\ pc' = IF timeToSleep' > 0 THEN "sleep" ELSE "loop"
            /\ UNCHANGED connected
  /\ UNCHANGED <<envVars, now, e, nClients, tStat>>
  /\ UNCHANGED scrapeVars

ScrapeReturned ==
  /\ pc = "returned"
  /\ scrapeDuration' = now - tStat
  /\ IF clientInvalidated
       THEN /\ connected' = FALSE
            /\ pc' = "pause"
            /\ UNCHANGED timeToSleep
       ELSE /\ timeToSleep' = tStat + interval - now
            /\ pc' = IF timeToSleep' > 0 THEN "sleep" ELSE "loop"
            /\ UNCHANGED connected
  /\ UNCHANGED <<envVars, now, e, nClients, tStat>>
  /\ UNCHANGED scrapeVars

\* time.Sleep(time.Second * 1); continue
Pause ==
  /\ pc = "pause"
  /\ now + ReconnectPause <= MaxTime
  /\ now' = now + ReconnectPause
  /\ pc' = "loop"
  /\ UNCHANGED envVars
  /\ UNCHANGED loopVars
  /\ UNCHANGED scrapeVars

\* time.Sleep(timeToSleep)
Sleep ==
  /\ pc = "sleep"
  /\ now + timeToSleep <= MaxTime
  /\ now' = now + timeToSleep
  /\ pc' = "loop"
  /\ UNCHANGED envVars
  /\ UNCHANGED loopVars
  /\ UNCHANGED scrapeVars

Next ==
  \/ Connect
  \/ Backoff
  \/ StartScrape
  \/ CommCheck
  \/ Production
  \/ Inverters
  \/ Batteries
  \/ WritePoint
  \/ ScrapeReturned
  \/ Pause
  \/ Sleep

Spec == Init /\ [][Next]_vars

\* The connection lifecycle of scrapeLoop alone: construction attempts, backoff
\* waits, the start of a scrape and its liveness check, and the reconnection
\* after a failed check; a scrape whose check succeeded is not followed further.
ConnectNext ==
  \/ Connect
  \/ Backoff
  \/ StartScrape
  \/ CommCheck
  \/ ScrapeReturned
  \/ Pause

\* The loop is one goroutine that always takes its next step: every call
\* returns and every sleep ends.
ConnectSpec == Init /\ [][ConnectNext]_vars /\ WF_vars(ConnectNext)

\* main installs no signal handler (no signal.Notify), so SIGINT or SIGTERM
\* ends the process on the spot, wherever scrapeLoop is.
Signal ==
  /\ pc # "killed"
  /\ pc' = "killed"
  /\ UNCHANGED <<now, loopVars, scrapeVars, envVars>>

SignalNext == Next \/ Signal

SignalSpec == Init /\ [][SignalNext]_vars

\* =========================================================================
\* The context-aware program (src/unnamed/part_000): scrapeLoop(ctx, cfg,
\* writeAPI) with a ticker, a 5-second backoff and cancellation, and its
\* scrape(ctx, e, writeAPI, sourceTag), which has no liveness check.
\* =========================================================================

\* time.After(5 * time.Second)
BackoffDelay == 5

\* The point builders of the context-aware program take the source tag as a
\* parameter and stamp each point with time.Now() when it is built; t is the
\* reading of the clock at that moment.
ctxLineToPoint(lineType, line, idx, sourceTag, t) ==
  [ name   |-> lineType \o "-line" \o ToString(idx),
    tags   |-> Tags3("source", sourceTag, "measurement-type", lineType,
                     "line-idx", ToString(idx)),
    fields |-> ("P" :> line.WNow) @@ ("Q" :> line.ReactPwr) @@ ("S" :> line.ApprntPwr)
               @@ ("I_rms" :> line.RmsCurrent) @@ ("V_rms" :> line.RmsVoltage),
    time   |-> t ]

ctxLinePoints(lineType, lines, sourceTag, t) ==
  [ i \in 1..Len(lines) |-> ctxLineToPoint(lineType, lines[i], i - 1, sourceTag, t) ]

RECURSIVE ctxProductionLoop(_, _, _)
ctxProductionLoop(measures, sourceTag, t) ==
  IF measures = <<>> THEN <<>>
  ELSE LET measure == Head(measures) IN
       (IF measure.MeasurementType = "production"
          THEN ctxLinePoints("production", measure.Lines, sourceTag, t) ELSE <<>>)
       \o ctxProductionLoop(Tail(measures), sourceTag, t)

RECURSIVE ctxConsumptionLoop(_, _, _)
ctxConsumptionLoop(measures, sourceTag, t) ==
  IF measures = <<>> THEN <<>>
  ELSE LET measure == Head(measures) IN
       (IF measure.MeasurementType = "total-consumption"
          THEN ctxLinePoints("consumption", measure.Lines, sourceTag, t) ELSE <<>>)
       \o (IF measure.MeasurementType = "net-consumption"
          THEN ctxLinePoints("net", measure.Lines, sourceTag, t) ELSE <<>>)
       \o ctxConsumptionLoop(Tail(measures), sourceTag, t)

ctxExtractProductionStats(p, sourceTag, t) ==
  ctxProductionLoop(p.Production, sourceTag, t) \o ctxConsumptionLoop(p.Consumption, sourceTag, t)

ctxExtractInverterStats(invs, sourceTag, t) ==
  [ i \in 1..Len(invs.list) |->
      [ name   |-> "inverter-production-" \o invs.list[i].SerialNumber,
        tags   |-> Tags3("source", sourceTag, "measurement-type", "inverter",
                         "serial", invs.list[i].SerialNumber),
        fields |-> ("P" :> invs.list[i].LastReportWatts),
        time   |-> t ] ]

ctxExtractBatteryStats(bats, sourceTag, t) ==
  [ i \in 1..Len(bats.list) |->
      [ name   |-> "battery-" \o bats.list[i].SerialNum,
        tags   |-> Tags3("source", sourceTag, "measurement-type", "battery",
                         "serial", bats.list[i].SerialNum),
        fields |-> ("percent-full" :> bats.list[i].PercentFull)
                   @@ ("temperature" :> bats.list[i].Temperature),
        time   |-> t ] ]

\* Values the test doubles of the context-aware program hand back.
CtxProductionValues ==
  { NilProduction,
    ProductionResponse(<<Measurement("production", <<Line(100)>>)>>, <<>>) }

CtxInverterValues == { NilList, ListPtr(<<Inverter("inv1", 50)>>) }

CtxBatteryValues == { NilList, ListPtr(<<>>), ListPtr(<<Battery("bat1", 75, 25)>>) }

CtxCallTimes == { d \in 0..MaxCallTime : now + d <= CtxMaxTime }

\* the ticker made at time 0 fires at the multiples of the interval; a tick
\* is due when the clock passes from a to b over such a multiple
TickDue(a, b) == \E k \in 1..CtxMaxTime : a < k * interval /\ k * interval <= b

\* the first tick after time t
NextTick(t) == ((t \div interval) + 1) * interval

ctxFixed == <<cfg, connected, invalidated, clientInvalidated, timeToSleep, scrapeDuration, file, configErr>>

CtxInit ==
  /\ cfg \in [Interval : 1..MaxInterval, SourceTag : {"test-source"}]
  /\ pc = "connectLoop"
  /\ now = 0
  /\ connected = FALSE
  /\ e = 0
  /\ nClients = 0
  /\ invalidated = {}
  /\ tStat = 0
  /\ timeToSleep = 0
  /\ calls = <<>>
  /\ prod = NilProduction
  /\ inverters = NilList
  /\ batteries = NilList
  /\ points = <<>>
  /\ writes = <<>>
  /\ numPoints = 0
  /\ clientInvalidated = FALSE
  /\ scrapeDuration = 0
  /\ cancelled = FALSE
  /\ tickPending = FALSE
  /\ file = NoFile
  /\ configErr = "nil"

\* main: the signal goroutine receives SIGINT/SIGTERM and calls cancel()
Shutdown ==
  /\ ~cancelled
  /\ pc # "done"
  /\ cancelled' = TRUE
  /\ UNCHANGED <<cfg, pc, now, connected, e, nClients, invalidated, tStat, timeToSleep,
                 calls, prod, inverters, batteries, points, writes, numPoints,
                 clientInvalidated, scrapeDuration, tickPending, file, configErr>>

\* connection loop: select { case <-ctx.Done(): return ... }
CtxConnectStop ==
  /\ pc = "connectLoop"
  /\ cancelled
  /\ pc' = "done"
  /\ UNCHANGED <<now, e, nClients, tStat, cancelled, tickPending>>
  /\ UNCHANGED <<calls, prod, inverters, batteries, points, writes, numPoints>>
  /\ UNCHANGED ctxFixed

\* connection loop: default: e, err = envoy.NewClient(...); break when err == nil
CtxConnect ==
  /\ pc = "connectLoop"
  /\ ~cancelled
  /\ \E d \in CtxCallTimes, failed \in BOOLEAN :
       /\ now' = now + d
       /\ IF failed
            THEN /\ e' = 0
                 /\ pc' = "backoffSelect"
                 /\ UNCHANGED nClients
            ELSE /\ e' = nClients + 1
                 /\ nClients' = nClients + 1
                 /\ pc' = "firstScrape"
  /\ tickPending' = (tickPending \/ TickDue(now, now'))
  /\ UNCHANGED <<tStat, cancelled>>
  /\ UNCHANGED <<calls, prod, inverters, batteries, points, writes, numPoints>>
  /\ UNCHANGED ctxFixed

\* backoff: select { case <-ctx.Done(): return ... }
CtxBackoffStop ==
  /\ pc = "backoffSelect"
  /\ cancelled
  /\ pc' = "done"
  /\ UNCHANGED <<now, e, nClients, tStat, cancelled, tickPending>>
  /\ UNCHANGED <<calls, prod, inverters, batteries, points, writes, numPoints>>
  /\ UNCHANGED ctxFixed

\* variant: the backoff sleeps its 5 seconds without looking at ctx.Done()
CtxBackoff_sleeps ==
  /\ pc = "backoffSelect"
  /\ now + BackoffDelay <= CtxMaxTime
  /\ now' = now + BackoffDelay
  /\ tickPending' = (tickPending \/ TickDue(now, now'))
  /\ pc' = "connectLoop"
  /\ UNCHANGED <<e, nClients, tStat, cancelled>>
  /\ UNCHANGED <<calls, prod, inverters, batteries, points, writes, numPoints>>
  /\ UNCHANGED ctxFixed

\* backoff: select { ... case <-time.After(5 * time.Second): continue }
CtxBackoff ==
  /\ pc = "backoffSelect"
  /\ ~cancelled
  /\ now + BackoffDelay <= CtxMaxTime
  /\ now' = now + BackoffDelay
  /\ tickPending' = (tickPending \/ TickDue(now, now'))
  /\ pc' = "connectLoop"
  /\ UNCHANGED <<e, nClients, tStat, cancelled>>
  /\ UNCHANGED <<calls, prod, inverters, batteries, points, writes, numPoints>>
  /\ UNCHANGED ctxFixed

\* scrape(ctx, e, writeAPI, cfg.SourceTag) right after the connection loop
CtxFirstScrape ==
  /\ pc = "firstScrape"
  /\ calls' = <<>>
  /\ prod' = NilProduction
  /\ inverters' = NilList
  /\ batteries' = NilList
  /\ points' = <<>>
  /\ writes' = <<>>
  /\ numPoints' = 0
  /\ pc' = "ctxProduction"
  /\ UNCHANGED <<now, e, nClients, tStat, cancelled, tickPending>>
  /\ UNCHANGED ctxFixed

\* main loop: select { case <-ctx.Done(): return ... }
CtxStop ==
  /\ pc = "select"
  /\ cancelled
  /\ pc' = "done"
  /\ UNCHANGED <<now, e, nClients, tStat, cancelled, tickPending>>
  /\ UNCHANGED <<calls, prod, inverters, batteries, points, writes, numPoints>>
  /\ UNCHANGED ctxFixed

\* main loop: select { ... case <-ticker.C: tStat := time.Now(); scrape(...) }
\* A buffered tick is taken at once, also when ctx.Done() is ready as well (the
\* select then picks either case); otherwise the loop waits for the next tick
\* unless ctx.Done() is ready.
CtxTick ==
  /\ pc = "select"
  /\ IF tickPending
       THEN now' = now
       ELSE /\ ~cancelled
            /\ NextTick(now) <= CtxMaxTime
            /\ now' = NextTick(now)
  /\ tickPending' = FALSE
  /\ tStat' = now'
  /\ calls' = <<>>
  /\ prod' = NilProduction
  /\ inverters' = NilList
  /\ batteries' = NilList
  /\ points' = <<>>
  /\ writes' = <<>>
  /\ numPoints' = 0
  /\ pc' = "ctxProduction"
  /\ UNCHANGED <<e, nClients, cancelled>>
  /\ UNCHANGED ctxFixed

\* scrape: prod, err := e.Production(); append when prod != nil && len(prod.Production) > 0
\* (the points are stamped time.Now() when they are built)
CtxProduction ==
  /\ pc = "ctxProduction"
  /\ \E d \in CtxCallTimes, failed \in BOOLEAN, v \in CtxProductionValues :
       /\ now' = now + d
       /\ calls' = Append(calls, Call("Production", failed))
       /\ prod' = v
       /\ points' = IF ~v.isNil /\ Len(v.Production) > 0
                      THEN points \o ctxExtractProductionStats(v, cfg.SourceTag, now')
                      ELSE points
  /\ tickPending' = (tickPending \/ TickDue(now, now'))
  /\ pc' = "ctxInverters"
  /\ UNCHANGED <<e, nClients, tStat, cancelled, inverters, batteries, writes, numPoints>>
  /\ UNCHANGED ctxFixed

\* scrape: inverters, err := e.Inverters(); append when inverters != nil && len(*inverters) > 0
CtxInverters ==
  /\ pc = "ctxInverters"
  /\ \E d \in CtxCallTimes, failed \in BOOLEAN, v \in CtxInverterValues :
       /\ now' = now + d
       /\ calls' = Append(calls, Call("Inverters", failed))
       /\ inverters' = v
       /\ points' = IF ~v.isNil /\ Len(v.list) > 0
                      THEN points \o ctxExtractInverterStats(v, cfg.SourceTag, now')
                      ELSE points
  /\ tickPending' = (tickPending \/ TickDue(now, now'))
  /\ pc' = "ctxBatteries"
  /\ UNCHANGED <<e, nClients, tStat, cancelled, prod, batteries, writes, numPoints>>
  /\ UNCHANGED ctxFixed

\* scrape: batteries, err := e.Batteries(); append when err == nil && batteries != nil;
\* return len(points) without a write when the batch is empty
CtxBatteries ==
  /\ pc = "ctxBatteries"
  /\ \E d \in CtxCallTimes, failed \in BOOLEAN, v \in CtxBatteryValues :
       /\ now' = now + d
       /\ calls' = Append(calls, Call("Batteries", failed))
       /\ batteries' = v
       /\ points' = IF ~failed /\ ~v.isNil
                      THEN points \o ctxExtractBatteryStats(v, cfg.SourceTag, now')
                      ELSE points
       /\ IF Len(points') > 0
            THEN /\ pc' = "ctxWritePoint"
                 /\ UNCHANGED numPoints
            ELSE /\ pc' = "select"
                 /\ numPoints' = 0
  /\ tickPending' = (tickPending \/ TickDue(now, now'))
  /\ UNCHANGED <<e, nClients, tStat, cancelled, prod, inverters, writes>>
  /\ UNCHANGED ctxFixed

\* scrape: err = writeAPI.WritePoint(ctx, points...); return len(points)
\* The sink is handed the loop's ctx: ctxDone records whether that context was
\* already cancelled when the write was issued.
CtxWritePoint ==
  /\ pc = "ctxWritePoint"
  /\ \E d \in CtxCallTimes, failed \in BOOLEAN :
       /\ now' = now + d
       /\ writes' = Append(writes, [points |-> points, err |-> failed, ctxDone |-> cancelled])
  /\ tickPending' = (tickPending \/ TickDue(now, now'))
  /\ numPoints' = Len(points)
  /\ pc' = "select"
  /\ UNCHANGED <<e, nClients, tStat, cancelled, calls, prod, inverters, batteries, points>>
  /\ UNCHANGED ctxFixed

\* the steps of scrapeLoop itself
CtxLoopNext ==
  \/ CtxConnectStop
  \/ CtxConnect
  \/ CtxBackoffStop
  \/ CtxBackoff
  \/ CtxFirstScrape
  \/ CtxStop
  \/ CtxTick
  \/ CtxProduction
  \/ CtxInverters
  \/ CtxBatteries
  \/ CtxWritePoint

CtxNext == CtxLoopNext \/ Shutdown

CtxSpec == CtxInit /\ [][CtxNext]_vars

\* Every call returns and every wait ends, so the loop always takes its next
\* step; a select with several ready cases picks each of them sooner or later.
CtxFairSpec == CtxSpec /\ WF_vars(CtxLoopNext) /\ SF_vars(CtxStop)

\* =========================================================================
\* The point builders called on their own (src/main.go), as the unit tests do:
\* one builder is applied to one input, drawn from a bounded set.
\* =========================================================================

SeqsUpTo(S, n) == UNION { [1..k -> S] : k \in 0..n }

\* line lists: the i-th line reports 10*i watts
ExtractLines == { [ i \in 1..n |-> Line(10 * i) ] : n \in 0..MaxLines }

\* a measurement with an unrecognized label: its lines are never read
UnknownMeasure == Measurement("unknown-type", <<Line(300)>>)

ExtractProductionMeasures ==
  { Measurement("production", ls) : ls \in ExtractLines } \cup {UnknownMeasure}

ExtractConsumptionMeasures ==
  { Measurement(t, ls) : t \in {"total-consumption", "net-consumption"}, ls \in ExtractLines }
  \cup {UnknownMeasure}

ExtractInverterInputs ==
  {NilList} \cup
  { ListPtr(l) : l \in SeqsUpTo({Inverter("inv1", 50), Inverter("inv2", 60)}, MaxMeasures) }

ExtractBatteryInputs ==
  {NilList} \cup
  { ListPtr(l) : l \in SeqsUpTo({Battery("bat1", 75, 25), Battery("bat2", 80, 26)}, MaxMeasures) }

ExtractInit ==
  /\ cfg \in [Interval : {1}, SourceTag : {"test-source"}]
  /\ pc \in {"extractProductionStats", "extractInverterStats", "extractBatteryStats"}
  /\ IF pc = "extractProductionStats"
       THEN \/ prod = NilProduction
            \/ \E p \in SeqsUpTo(ExtractProductionMeasures, MaxMeasures),
                  c \in SeqsUpTo(ExtractConsumptionMeasures, MaxMeasures) :
                 prod = ProductionResponse(p, c)
       ELSE prod = NilProduction
  /\ inverters \in IF pc = "extractInverterStats" THEN ExtractInverterInputs ELSE {NilList}
  /\ batteries \in IF pc = "extractBatteryStats" THEN ExtractBatteryInputs ELSE {NilList}
  /\ now = 0
  /\ connected = FALSE
  /\ e = 0
  /\ nClients = 0
  /\ invalidated = {}
  /\ tStat = 0
  /\ timeToSleep = 0
  /\ calls = <<>>
  /\ points = <<>>
  /\ writes = <<>>
  /\ numPoints = 0
  /\ clientInvalidated = FALSE
  /\ scrapeDuration = 0
  /\ cancelled = FALSE
  /\ tickPending = FALSE
  /\ file = NoFile
  /\ configErr = "nil"

extractFixed == <<cfg, now, loopVars, prod, inverters, batteries, writes, numPoints,
                  clientInvalidated, invalidated, cancelled, tickPending, file, configErr>>

\* extractProductionStats(prod, ts): range prod.Production dereferences prod,
\* which panics on a nil pointer
CallExtractProductionStats ==
  /\ pc = "extractProductionStats"
  /\ IF prod.isNil
       THEN /\ pc' = "panic"
            /\ calls' = <<Call("extractProductionStats", TRUE)>>
            /\ UNCHANGED points
       ELSE /\ pc' = "returned"
            /\ calls' = <<Call("extractProductionStats", FALSE)>>
            /\ points' = extractProductionStats(prod, tStat)
  /\ UNCHANGED extractFixed

\* extractInverterStats(inverters, ts): len(*inverters) dereferences inverters
CallExtractInverterStats ==
  /\ pc = "extractInverterStats"
  /\ IF inverters.isNil
       THEN /\ pc' = "panic"
            /\ calls' = <<Call("extractInverterStats", TRUE)>>
            /\ UNCHANGED points
       ELSE /\ pc' = "returned"
            /\ calls' = <<Call("extractInverterStats", FALSE)>>
            /\ points' = extractInverterStats(inverters, tStat)
  /\ UNCHANGED extractFixed

\* extractBatteryStats(batteries, ts): len(*batteries) dereferences batteries
CallExtractBatteryStats ==
  /\ pc = "extractBatteryStats"
  /\ IF batteries.isNil
       THEN /\ pc' = "panic"
            /\ calls' = <<Call("extractBatteryStats", TRUE)>>
            /\ UNCHANGED points
       ELSE /\ pc' = "returned"
            /\ calls' = <<Call("extractBatteryStats", FALSE)>>
            /\ points' = extractBatteryStats(batteries, tStat)
  /\ UNCHANGED extractFixed

ExtractNext ==
  \/ CallExtractProductionStats
  \/ CallExtractInverterStats
  \/ CallExtractBatteryStats

ExtractSpec == ExtractInit /\ [][ExtractNext]_vars

\* =========================================================================
\* Loading the configuration: loadAndValidateConfig of src/main.go, and main
\* with Config.Validate of src/unnamed/part_000.
\* =========================================================================

\* cfg.Interval = 5 (main.go) and Config{Interval: 5} (part_000)
DefaultInterval == 5

\* a string setting of the file is either missing/empty or given
Settings == {"", "set"}

\* The files main may be pointed at: one that cannot be opened ("missing"),
\* one that is not YAML ("malformed"), or a readable one ("ok") with its keys;
\* hasInterval tells whether the file has the interval key.
ConfigFiles ==
  { f \in [ state : {"missing", "malformed", "ok"},
            username : Settings, password : Settings, jwt : Settings, address : Settings,
            serial : Settings, source : {"test-source"}, influxdb : Settings,
            influxdb_token : Settings, influxdb_org : Settings, influxdb_bucket : Settings,
            hasInterval : BOOLEAN, interval : -1..MaxInterval ] :
      /\ (~f.hasInterval => f.interval = 0)
      /\ (f.state # "ok" =>
            /\ ~f.hasInterval
            /\ \A k \in {"username", "password", "jwt", "address", "serial", "influxdb",
                         "influxdb_token", "influxdb_org", "influxdb_bucket"} : f[k] = "") }

Readable(f) == f.state = "ok"

\* var cfg Config: the zero value
ZeroConfig ==
  [ Username |-> "", Password |-> "", JWT |-> "", Address |-> "", SerialNumber |-> "",
    SourceTag |-> "", InfluxDB |-> "", InfluxDBToken |-> "", InfluxDBOrg |-> "",
    InfluxDBBucket |-> "", Interval |-> 0 ]

\* decoder.Decode(&cfg): every key of the file overwrites its field, a key the
\* file does not have leaves the field as it was
Decode(c, f) ==
  [ Username |-> IF f.username = "" THEN c.Username ELSE f.username,
    Password |-> IF f.password = "" THEN c.Password ELSE f.password,
    JWT |-> IF f.jwt = "" THEN c.JWT ELSE f.jwt,
    Address |-> IF f.address = "" THEN c.Address ELSE f.address,
    SerialNumber |-> IF f.serial = "" THEN c.SerialNumber ELSE f.serial,
    SourceTag |-> IF f.source = "" THEN c.SourceTag ELSE f.source,
    InfluxDB |-> IF f.influxdb = "" THEN c.InfluxDB ELSE f.influxdb,
    InfluxDBToken |-> IF f.influxdb_token = "" THEN c.InfluxDBToken ELSE f.influxdb_token,
    InfluxDBOrg |-> IF f.influxdb_org = "" THEN c.InfluxDBOrg ELSE f.influxdb_org,
    InfluxDBBucket |-> IF f.influxdb_bucket = "" THEN c.InfluxDBBucket ELSE f.influxdb_bucket,
    Interval |-> IF f.hasInterval THEN f.interval ELSE c.Interval ]

\* variant of the checks that looks at the token before the bucket
validateConfig_tokenFirst(c) ==
  IF c.Address = "" THEN "address"
  ELSE IF c.SerialNumber = "" THEN "serial"
  ELSE IF (c.Username = "" /\ c.Password = "") /\ c.JWT = "" THEN "authentication"
  ELSE IF c.InfluxDB = "" THEN "influxdb"
  ELSE IF c.InfluxDBToken = "" THEN "influxdb_token"
  ELSE IF c.InfluxDBBucket = "" THEN "influxdb_bucket"
  ELSE IF c.InfluxDBOrg = "" THEN "influxdb_org"
  ELSE "nil"

\* the checks of loadAndValidateConfig, in their order: the name of the first
\* missing setting, or "nil"
validateConfig(c) ==
  IF c.Address = "" THEN "address"
  ELSE IF c.SerialNumber = "" THEN "serial"
  ELSE IF (c.Username = "" /\ c.Password = "") /\ c.JWT = "" THEN "authentication"
  ELSE IF c.InfluxDB = "" THEN "influxdb"
  ELSE IF c.InfluxDBBucket = "" THEN "influxdb_bucket"
  ELSE IF c.InfluxDBToken = "" THEN "influxdb_token"
  ELSE IF c.InfluxDBOrg = "" THEN "influxdb_org"
  ELSE "nil"

\* func (c *Config) Validate() error
Validate(c) ==
  IF c.Address = "" THEN "address"
  ELSE IF c.SerialNumber = "" THEN "serial"
  ELSE IF (c.Username = "" /\ c.Password = "") /\ c.JWT = "" THEN "authentication"
  ELSE IF c.InfluxDB = "" THEN "influxdb"
  ELSE IF c.InfluxDBBucket = "" THEN "influxdb_bucket"
  ELSE IF c.InfluxDBToken = "" THEN "influxdb_token"
  ELSE IF c.InfluxDBOrg = "" THEN "influxdb_org"
  ELSE "nil"

ConfigInit ==
  /\ pc \in {"loadAndValidateConfig", "ctxMain"}
  /\ file \in ConfigFiles
  /\ configErr = "nil"
  /\ cfg = IF pc = "ctxMain" THEN [ZeroConfig EXCEPT !.Interval = DefaultInterval]
                             ELSE ZeroConfig
  /\ now = 0
  /\ connected = FALSE
  /\ e = 0
  /\ nClients = 0
  /\ invalidated = {}
  /\ tStat = 0
  /\ timeToSleep = 0
  /\ calls = <<>>
  /\ prod = NilProduction
  /\ inverters = NilList
  /\ batteries = NilList
  /\ points = <<>>
  /\ writes = <<>>
  /\ numPoints = 0
  /\ clientInvalidated = FALSE
  /\ scrapeDuration = 0
  /\ cancelled = FALSE
  /\ tickPending = FALSE

configFixed == <<file, now, loopVars, scrapeVars, cancelled, tickPending>>

\* variant: the interval read from the file is kept as it is, also when it is 0
LoadAndValidateConfig_noDefault ==
  /\ pc = "loadAndValidateConfig"
  /\ IF ~Readable(file)
       THEN /\ pc' = "configError"
            /\ cfg' = ZeroConfig
            /\ configErr' = IF file.state = "missing" THEN "open" ELSE "decode"
       ELSE LET decoded == Decode(ZeroConfig, file) IN
            /\ cfg' = decoded
            /\ configErr' = validateConfig(decoded)
            /\ pc' = IF validateConfig(decoded) = "nil" THEN "configLoaded" ELSE "configError"
  /\ UNCHANGED configFixed

\* main.go: cfg, err = loadAndValidateConfig(cfgFile); log.Fatalf on an error.
\* The file is opened and decoded, an interval of 0 becomes the default, then
\* the settings are checked.
LoadAndValidateConfig ==
  /\ pc = "loadAndValidateConfig"
  /\ IF ~Readable(file)
       THEN /\ pc' = "configError"
            /\ cfg' = ZeroConfig
            /\ configErr' = IF file.state = "missing" THEN "open" ELSE "decode"
       ELSE LET decoded == Decode(ZeroConfig, file)
                c == IF decoded.Interval = 0
                       THEN [decoded EXCEPT !.Interval = DefaultInterval] ELSE decoded
            IN
            /\ cfg' = c
            /\ configErr' = validateConfig(c)
            /\ pc' = IF validateConfig(c) = "nil" THEN "configLoaded" ELSE "configError"
  /\ UNCHANGED configFixed

\* part_000 main: the file is opened and decoded into Config{Interval: 5},
\* then cfg.Validate(); log.Fatal on an error
CtxLoadConfig ==
  /\ pc = "ctxMain"
  /\ IF ~Readable(file)
       THEN /\ pc' = "ctxConfigError"
            /\ configErr' = IF file.state = "missing" THEN "open" ELSE "decode"
            /\ UNCHANGED cfg
       ELSE LET decoded == Decode(cfg, file) IN
            /\ cfg' = decoded
            /\ configErr' = Validate(decoded)
            /\ pc' = IF Validate(decoded) = "nil" THEN "ctxConfigLoaded" ELSE "ctxConfigError"
  /\ UNCHANGED configFixed

ConfigNext == LoadAndValidateConfig \/ CtxLoadConfig

ConfigSpec == ConfigInit /\ [][ConfigNext]_vars

\* ------------------------------------------------ observations of a cycle
ScrapePcs == {"CommCheck", "Production", "Inverters", "Batteries", "WritePoint"}

CallFns == [ i \in 1..Len(calls) |-> calls[i].fn ]

\* the call to fn was made in this cycle and returned an error
Failed(fn) == \E i \in 1..Len(calls) : calls[i].fn = fn /\ calls[i].err

\* the call to fn was made in this cycle and returned no error
Succeeded(fn) == \E i \in 1..Len(calls) : calls[i].fn = fn /\ ~calls[i].err

Count(fn) == Cardinality({ i \in 1..Len(calls) : calls[i].fn = fn })

\* the points of the batch whose measurement-type tag is in types
PointsOf(types) == SelectSeq(points, LAMBDA p : p.tags["measurement-type"] \in types)

LineTypes == {"production", "consumption", "net"}

\* ------------------------------------------------------------------ C1
\* C1: whenever CommCheck returns an error, scrape returns (0, true), none of
\* Production, Inverters and Batteries is invoked and the sink is not written
\* in that cycle.
C1_CommCheckFailure ==
  Failed("CommCheck") =>
    /\ pc \notin ScrapePcs
    /\ numPoints = 0
    /\ clientInvalidated
    /\ Count("Production") = 0
    /\ Count("Inverters") = 0
    /\ Count("Batteries") = 0
    /\ writes = <<>>

C1_Witness == pc = "returned" /\ Failed("CommCheck") /\ nClients = 2

\* ------------------------------------------------------------------ C2
\* C2: scrape returns sessionInvalid = true exactly when CommCheck failed; no
\* fetch failure and no sink write failure makes it true.
C2_InvalidIffCommCheck ==
  pc = "returned" => (clientInvalidated <=> Failed("CommCheck"))

C2_Witness ==
  /\ pc = "returned"
  /\ ~clientInvalidated
  /\ Failed("Production") /\ Failed("Inverters") /\ Failed("Batteries")
  /\ Len(writes) = 1 /\ writes[1].err

\* ------------------------------------------------------------------ C3
\* C3: a category whose fetch returned an error contributes zero points to the
\* batch, whatever value came with the error, and the points of the other
\* categories are what their own fetch yields.
C3_FailedCategoryContributesNothing ==
  pc = "returned" /\ Succeeded("CommCheck") =>
    /\ Failed("Production") => PointsOf(LineTypes) = <<>>
    /\ Failed("Inverters") => PointsOf({"inverter"}) = <<>>
    /\ Failed("Batteries") => PointsOf({"battery"}) = <<>>
    /\ Succeeded("Inverters") /\ ~inverters.isNil =>
         PointsOf({"inverter"}) = extractInverterStats(inverters, tStat)
    /\ Succeeded("Batteries") /\ ~batteries.isNil =>
         PointsOf({"battery"}) = extractBatteryStats(batteries, tStat)

\* ------------------------------------------------------------------ C4
\* C4: CommCheck is invoked first in every cycle; when it succeeds, Production,
\* Inverters and Batteries are each invoked exactly once, in that order,
\* whatever the outcome of the earlier fetches.
C4_CallOrder ==
  /\ \E n \in 0..4 :
       CallFns = SubSeq(<<"CommCheck", "Production", "Inverters", "Batteries">>, 1, n)
       \/ CallFns = <<"CommCheck", "InvalidateSession">>
  /\ pc = "returned" /\ Succeeded("CommCheck") =>
       CallFns = <<"CommCheck", "Production", "Inverters", "Batteries">>

C4_Witness ==
  /\ pc = "returned"
  /\ Failed("Production") /\ Failed("Inverters") /\ Succeeded("Batteries")

\* ------------------------------------------------------------------ C5
\* C5: the returned point count is the size of the batch, whether or not the
\* sink write fails; a production-fetch failure with successful inverter and
\* battery fetches yields inverter-count + battery-count and
\* sessionInvalid = false.
C5_PointCount ==
  pc = "returned" /\ Succeeded("CommCheck") =>
    /\ numPoints = Len(points)
    /\ Failed("Production") /\ Succeeded("Inverters") /\ Succeeded("Batteries") =>
         /\ numPoints = Len(inverters.list) + Len(batteries.list)
         /\ ~clientInvalidated

\* ------------------------------------------------------------------ C6
\* every category came back nil or without entries
NoData ==
  /\ prod.isNil \/ extractProductionStats(prod, tStat) = <<>>
  /\ inverters.isNil \/ inverters.list = <<>>
  /\ batteries.isNil \/ batteries.list = <<>>

\* C6: when the liveness check passes but no category yields a point, scrape
\* returns (0, false) and WritePoint is never called in that cycle.
C6_EmptyBatchNotWritten ==
  pc = "returned" /\ Succeeded("CommCheck") /\ (NoData \/ points = <<>>) =>
    /\ points = <<>>
    /\ numPoints = 0
    /\ ~clientInvalidated
    /\ writes = <<>>

C6_Witness ==
  /\ pc = "returned"
  /\ Succeeded("CommCheck")
  /\ NoData
  /\ Failed("Production")
  /\ Succeeded("Inverters") /\ ~inverters.isNil
  /\ writes = <<>>

\* ------------------------------------------------------------------ C7
\* C7: a cycle with a non-empty batch calls WritePoint exactly once, with
\* every point of the batch; no cycle calls it more than once.
C7_OneWritePerCycle ==
  /\ Len(writes) <= 1
  /\ pc = "returned" /\ points # <<>> =>
       Len(writes) = 1 /\ writes[1].points = points

C7_Witness ==
  pc = "returned" /\ Len(points) >= 3 /\ Len(writes) = 1 /\ writes[1].err

\* ------------------------------------------------------------------ C8
\* C8: every point of a cycle's batch carries the same timestamp, the scrape
\* start time scrapeLoop took before the first device call, and that time is
\* not taken again while the cycle runs.
C8_OneTimestamp ==
  /\ [](/\ \A i \in 1..Len(points) : points[i].time = tStat
        /\ \A w \in 1..Len(writes) : \A i \in 1..Len(writes[w].points) :
             writes[w].points[i].time = tStat)
  /\ [][(pc \in ScrapePcs) => (tStat' = tStat)]_vars

C8_Witness ==
  /\ pc = "returned"
  /\ Len(writes) = 1
  /\ PointsOf(LineTypes) # <<>> /\ PointsOf({"inverter"}) # <<>>
  /\ PointsOf({"battery"}) # <<>>
  /\ now > tStat + 1
  /\ tStat > 0

\* ------------------------------------------------------------------ C9
\* C9: InvalidateSession is called in a cycle exactly when CommCheck returned
\* an error, and then once; fetch and sink failures never trigger it.
C9_InvalidateOnlyOnCommCheck ==
  /\ Count("InvalidateSession") = (IF Failed("CommCheck") THEN 1 ELSE 0)
  /\ pc = "returned" /\ Failed("CommCheck") => e \in invalidated

C9_Witness ==
  /\ pc = "returned"
  /\ Count("InvalidateSession") = 0
  /\ Failed("Batteries")
  /\ Len(writes) = 1 /\ writes[1].err
  /\ invalidated # {}

\* ----------------------------------------------------------------- C10
\* C10: a scrape runs only while connected, on the most recently constructed
\* client, and never on a client whose session a previous scrape invalidated.
C10_ScrapeOnlyConnected ==
  pc \in ScrapePcs =>
    /\ connected
    /\ e # 0
    /\ e = nClients
    /\ e \notin invalidated

C10_Witness ==
  pc = "CommCheck" /\ nClients = 2 /\ invalidated = {1}

C13_FixedBackoff ==
  [][(pc = "backoff" /\ pc' = "loop") => (now' = now + BackoffDelay)]_vars

\* ----------------------------------------------------------------- C14
\* C14: a cycle that passed the liveness check leaves the loop connected on the
\* same client, whatever fetches or the sink write failed; the next scrape
\* starts on that client and no client is constructed.
C14_FetchAndSinkErrorsKeepConnection ==
  /\ [](Succeeded("CommCheck") /\ pc \in {"returned", "sleep", "loop"} =>
          connected /\ e = nClients /\ e \notin invalidated)
  /\ [][(Succeeded("CommCheck") /\ pc \in {"returned", "sleep"}) =>
          (pc' \in {"sleep", "loop"} /\ connected' /\ e' = e /\ nClients' = nClients)]_vars
  /\ [][(Succeeded("CommCheck") /\ pc = "loop") =>
          (pc' = "CommCheck" /\ connected' /\ e' = e /\ nClients' = nClients)]_vars

C14_Witness ==
  /\ pc = "loop" /\ connected
  /\ Failed("Production") /\ Failed("Inverters")
  /\ Len(writes) = 1 /\ writes[1].err

\* ----------------------------------------------------------------- C15
Range(f) == { f[i] : i \in DOMAIN f }

\* the point is one that this cycle's own fetch results yield
FromThisCycle(p) ==
  \/ ~prod.isNil /\ p \in Range(extractProductionStats(prod, tStat))
  \/ ~inverters.isNil /\ p \in Range(extractInverterStats(inverters, tStat))
  \/ ~batteries.isNil /\ p \in Range(extractBatteryStats(batteries, tStat))

\* C15: a cycle sends its batch at most once, failed or not; the batch holds
\* only points of that cycle's own fetch results, and the next cycle starts
\* from an empty batch at a later scrape time.
C15_AtMostOnceDelivery ==
  /\ [](/\ Len(writes) <= 1
        /\ \A w \in 1..Len(writes) : writes[w].points = points
        /\ \A i \in 1..Len(points) : FromThisCycle(points[i]))
  /\ [][(pc = "loop" /\ pc' = "CommCheck") =>
          (points' = <<>> /\ writes' = <<>> /\ (calls # <<>> => tStat' > tStat))]_vars

C15_Witness ==
  /\ pc = "returned" /\ nClients = 1 /\ tStat >= 2
  /\ Len(writes) = 1 /\ writes[1].err

\* ----------------------------------------------------------------- C16
\* the cycle recorded in calls has made all its device calls and its write
CycleComplete ==
  \/ calls = <<>>
  \/ calls[Len(calls)].fn = "InvalidateSession"
  \/ calls[Len(calls)].fn = "Batteries" /\ (points # <<>> => Len(writes) = 1)

IsPrefix(s1, s2) == Len(s1) <= Len(s2) /\ SubSeq(s2, 1, Len(s1)) = s1

\* C16: while a scrape is making its calls no other scrape and no connection
\* attempt begins: the cycle only moves forward on the same client until it
\* has returned, and outside a scrape the last cycle is complete.
C16_NoOverlap ==
  /\ [](pc \notin ScrapePcs => CycleComplete)
  /\ [][(pc \in ScrapePcs) =>
          (/\ pc' \in ScrapePcs \cup {"returned"}
           /\ tStat' = tStat /\ e' = e /\ nClients' = nClients
           /\ IsPrefix(calls, calls') /\ IsPrefix(points, points'))]_vars

C16_Witness ==
  /\ pc = "Inverters" /\ tStat >= 2 /\ nClients = 1
  /\ now > tStat + interval

\* ----------------------------------------------------------------- C17
Max(a, b) == IF a >= b THEN a ELSE b

\* C17: after a scrape that started at tStat, took scrapeDuration and kept the
\* session, the loop sleeps tStat + interval - now only when that is positive,
\* and the next scrape starts at max(tStat + interval, tStat + scrapeDuration).
C17_StartAnchoredTiming ==
  /\ [](pc = "sleep" =>
          timeToSleep > 0 /\ timeToSleep = interval - scrapeDuration)
  /\ [][(pc = "sleep") => (now' = now + timeToSleep)]_vars
  /\ [][(pc = "loop" /\ connected /\ calls # <<>> /\ ~clientInvalidated) =>
          (tStat' = Max(tStat + interval, tStat + scrapeDuration))]_vars

C17_Witness ==
  /\ pc = "CommCheck" /\ calls = <<>>
  /\ nClients = 1 /\ tStat = 3 /\ interval = 1

\* ----------------------------------------------------------------- C12
\* C12: as long as no client construction has succeeded the loop only
\* alternates between attempts and backoff waits, never scrapes and never
\* exits; every wait (that ends within the explored time) is followed by a new
\* attempt, every attempt ends, and once a construction has succeeded a scrape
\* starts.
C12_RetryUntilConnected ==
  /\ [](nClients = 0 => pc \in {"loop", "backoff"} /\ ~connected /\ calls = <<>>)
  /\ (nClients = 0 /\ pc = "backoff" /\ now + interval <= MaxTime) ~>
       (pc = "loop" /\ ~connected)
  /\ (pc = "loop" /\ ~connected) ~> (pc = "backoff" \/ connected)
  /\ (pc = "loop" /\ connected) ~> (pc = "CommCheck")

C12_Witness ==
  pc = "loop" /\ nClients = 0 /\ ~connected /\ now >= 3

\* a step that begins a scrape cycle of the context-aware loop
CtxScrapeStartStep == pc \in {"firstScrape", "select"} /\ pc' = "ctxProduction"

\* a step that calls envoy.NewClient in the context-aware loop
CtxAttemptStep == pc = "connectLoop" /\ pc' \in {"backoffSelect", "firstScrape"}

\* C18: in the context-aware scrapeLoop, once the shutdown signal has been
\* received no step begins a new scrape cycle and no step begins a new
\* construction attempt, whatever state the loop is in.
C18_NoNewWorkAfterShutdown ==
  [][cancelled => (~CtxScrapeStartStep /\ ~CtxAttemptStep)]_vars

\* C19: in the context-aware scrapeLoop, after the shutdown signal the loop
\* eventually returns, from every state; at the top of the connection loop,
\* at the backoff wait and at the timer wait with no tick buffered, the very
\* next step of the loop is the return.
C19_ShutdownReturns ==
  /\ cancelled ~> (pc = "done")
  /\ [][(cancelled /\ (pc \in {"connectLoop", "backoffSelect"} \/ (pc = "select" /\ ~tickPending)))
          => (pc' = "done")]_vars

C19_Witness == pc = "done" /\ cancelled /\ nClients > 0 /\ Len(calls) = 3 /\ now >= BackoffDelay

\* C20: in main.go an interrupt or termination signal shuts the loop down
\* gracefully: the loop is never ended in the middle of a scrape cycle (at a
\* position inside scrape, between its calls), but only where it is between
\* cycles or connecting.
C20_GracefulShutdown ==
  [][(pc' = "killed") => (pc \notin ScrapePcs)]_vars

\* positions inside scrape of the context-aware program
CtxScrapePcs == {"ctxProduction", "ctxInverters", "ctxBatteries", "ctxWritePoint"}

\* C21: in the context-aware program a scrape cycle in flight when the
\* shutdown signal arrives still finishes: after the signal every step taken
\* inside scrape goes on to the next fetch, to the write or to the end of the
\* cycle, never straight to the return of the loop, and the cycle's sink
\* write is not one the signal cancels, that is, it is never issued under a
\* context that is already done.
C21_InFlightCycleFinishes ==
  /\ [][(cancelled /\ pc \in CtxScrapePcs) => (pc' \in CtxScrapePcs \cup {"select"})]_vars
  /\ [](\A i \in 1..Len(writes) : ~writes[i].ctxDone)

\* ------------------------------------------ the point builders on their own
\* the builder fn was called and returned
Extracted(fn) == pc = "returned" /\ calls = <<Call(fn, FALSE)>>

\* the builder fn was called, whether it returned or not
Applied(fn) == calls # <<>> /\ calls[1].fn = fn

\* number of lines in the measurements of a list that carry a label
RECURSIVE LinesLabeled(_, _)
LinesLabeled(measures, label) ==
  IF measures = <<>> THEN 0
  ELSE (IF Head(measures).MeasurementType = label THEN Len(Head(measures).Lines) ELSE 0)
       + LinesLabeled(Tail(measures), label)

\* C22: extractProductionStats emits as many production points as there are
\* lines in the "production" measurements of the production list, as many
\* consumption points as lines in the "total-consumption" measurements and as
\* many net points as lines in the "net-consumption" measurements of the
\* consumption list, and nothing else, so that other labels yield no points.
C22_PointsPerLabel ==
  Extracted("extractProductionStats") =>
    /\ Len(PointsOf({"production"})) = LinesLabeled(prod.Production, "production")
    /\ Len(PointsOf({"consumption"})) = LinesLabeled(prod.Consumption, "total-consumption")
    /\ Len(PointsOf({"net"})) = LinesLabeled(prod.Consumption, "net-consumption")
    /\ Len(points) = Len(PointsOf(LineTypes))

C22_Witness ==
  /\ Extracted("extractProductionStats")
  /\ Len(PointsOf({"production"})) = 2
  /\ Len(PointsOf({"consumption"})) = 1
  /\ Len(PointsOf({"net"})) = 2
  /\ \E i \in 1..Len(prod.Production) : prod.Production[i] = UnknownMeasure

\* C23: the line-idx values of the points extractProductionStats emits for one
\* category are 0, 1, ..., n-1 in the order of the points, where n is the
\* number of points of the category, also when several measurements carry the
\* same label.
C23_LineIdxPerCategory ==
  Extracted("extractProductionStats") =>
    \A c \in LineTypes :
      \A i \in 1..Len(PointsOf({c})) : PointsOf({c})[i].tags["line-idx"] = ToString(i - 1)

\* C24: every point the builders return carries exactly three tags: source
\* with the configured source tag, measurement-type with the category of the
\* point, and line-idx (line points) or serial (inverter and battery points).
C24_ExactlyThreeTags ==
  pc = "returned" /\ calls # <<>> =>
    \A i \in 1..Len(points) :
      LET p == points[i] IN
      /\ Cardinality(DOMAIN p.tags) = 3
      /\ {"source", "measurement-type"} \subseteq DOMAIN p.tags
      /\ p.tags["source"] = cfg.SourceTag
      /\ Applied("extractProductionStats") =>
           /\ "line-idx" \in DOMAIN p.tags
           /\ p.tags["measurement-type"] \in LineTypes
           /\ p.name = p.tags["measurement-type"] \o "-line" \o p.tags["line-idx"]
      /\ Applied("extractInverterStats") =>
           /\ "serial" \in DOMAIN p.tags
           /\ p.tags["measurement-type"] = "inverter"
           /\ p.tags["serial"] = inverters.list[i].SerialNumber
      /\ Applied("extractBatteryStats") =>
           /\ "serial" \in DOMAIN p.tags
           /\ p.tags["measurement-type"] = "battery"
           /\ p.tags["serial"] = batteries.list[i].SerialNum

C24_Witness ==
  /\ Extracted("extractBatteryStats")
  /\ Len(points) = 2
  /\ points[1].tags["serial"] = "bat2"

\* C25: extractProductionStats called with a nil response returns an empty
\* sequence and does not fail.
C25_NilProductionIsEmpty ==
  (Applied("extractProductionStats") /\ prod.isNil) => (pc = "returned" /\ points = <<>>)

\* C26: extractInverterStats and extractBatteryStats called with a nil list or
\* an empty list return an empty sequence and do not fail.
C26_NilOrEmptyListIsEmpty ==
  /\ (Applied("extractInverterStats") /\ (inverters.isNil \/ inverters.list = <<>>))
       => (pc = "returned" /\ points = <<>>)
  /\ (Applied("extractBatteryStats") /\ (batteries.isNil \/ batteries.list = <<>>))
       => (pc = "returned" /\ points = <<>>)

\* C27: for a non-nil list extractInverterStats and extractBatteryStats return
\* one point per entry in the order of the entries: the i-th point is named
\* inverter-production-{serial} with field P, or battery-{serial} with fields
\* percent-full and temperature, of the i-th entry.
C27_OnePointPerEntry ==
  /\ Extracted("extractInverterStats") =>
       /\ Len(points) = Len(inverters.list)
       /\ \A i \in 1..Len(points) :
            /\ points[i].name = "inverter-production-" \o inverters.list[i].SerialNumber
            /\ points[i].fields = ("P" :> inverters.list[i].LastReportWatts)
  /\ Extracted("extractBatteryStats") =>
       /\ Len(points) = Len(batteries.list)
       /\ \A i \in 1..Len(points) :
            /\ points[i].name = "battery-" \o batteries.list[i].SerialNum
            /\ points[i].fields = ("percent-full" :> batteries.list[i].PercentFull)
                                  @@ ("temperature" :> batteries.list[i].Temperature)

C27_Witness ==
  /\ Extracted("extractInverterStats")
  /\ Len(points) = 2
  /\ inverters.list[1].SerialNumber # inverters.list[2].SerialNumber

\* ------------------------------------------------------------ configuration
\* the configuration has been read from a readable file and checked
ConfigChecked ==
  pc \in {"configLoaded", "configError", "ctxConfigLoaded", "ctxConfigError"} /\ Readable(file)

ConfigAccepted == pc \in {"configLoaded", "ctxConfigLoaded"}

\* an authentication method: username with password, or the token
AuthGiven(c) == (c.Username # "" /\ c.Password # "") \/ c.JWT # ""

SinkAndDeviceGiven(c) ==
  /\ c.Address # ""
  /\ c.SerialNumber # ""
  /\ c.InfluxDB # ""
  /\ c.InfluxDBToken # ""
  /\ c.InfluxDBOrg # ""
  /\ c.InfluxDBBucket # ""

\* C28: loading the configuration succeeds exactly when address, serial, sink
\* endpoint, sink token, sink organization and sink bucket are all non-empty
\* and an authentication method is given; otherwise it returns an error.
C28_RequiredSettings ==
  ConfigChecked => (ConfigAccepted <=> (SinkAndDeviceGiven(cfg) /\ AuthGiven(cfg)))

\* C29: of the configurations that have every other required setting, the
\* validation accepts those with username and password both non-empty or with
\* a token, and rejects a username without password and token and a password
\* without username and token.
C29_AuthBothOrToken ==
  (ConfigChecked /\ SinkAndDeviceGiven(cfg)) =>
    /\ AuthGiven(cfg) => ConfigAccepted
    /\ (cfg.JWT = "" /\ (cfg.Username = "" \/ cfg.Password = "")) => ~ConfigAccepted

\* C30: loadAndValidateConfig of main.go yields the interval 5 when the file
\* has no interval or an interval of 0, and the interval of the file otherwise.
C30_DefaultInterval ==
  (pc \in {"configLoaded", "configError"} /\ Readable(file)) =>
    cfg.Interval = IF ~file.hasInterval \/ file.interval = 0 THEN 5 ELSE file.interval

C30_Witness ==
  /\ pc = "configLoaded"
  /\ ~file.hasInterval
  /\ cfg.Interval = 5

\* C31: in the context-aware program all points built in one scrape cycle,
\* and so all points of one batch handed to the sink, carry the same
\* timestamp, also when the clock advances between the construction of one
\* point and the next.
C31_CtxOneTimestamp ==
  /\ \A i, j \in 1..Len(points) : points[i].time = points[j].time
  /\ \A w \in 1..Len(writes) : \A i, j \in 1..Len(writes[w].points) :
       writes[w].points[i].time = writes[w].points[j].time

\* C32: in scrape of main.go, once the production fetch has succeeded with a
\* response, the line points of the batch are exactly the points
\* extractProductionStats yields for that response, the consumption and net
\* points of a response with an empty production list included.
C32_ProductionPointsInBatch ==
  (pc \in {"Inverters", "Batteries", "WritePoint", "returned"}
     /\ Succeeded("Production") /\ ~prod.isNil)
    => (PointsOf(LineTypes) = extractProductionStats(prod, tStat))

\* the points of a batch whose measurement-type is one of types, in batch order
Sel(b, types) == SelectSeq(b, LAMBDA p : p.tags["measurement-type"] \in types)

\* C33: every batch handed to the sink is ordered: the production points,
\* then the consumption and net points in the order of the consumption
\* measurements, then the inverter points in input order, then the battery
\* points in input order.
C33_BatchOrder ==
  \A w \in 1..Len(writes) :
    LET b == writes[w].points IN
    /\ b = Sel(b, {"production"}) \o Sel(b, {"consumption", "net"})
           \o Sel(b, {"inverter"}) \o Sel(b, {"battery"})
    /\ Sel(b, {"production"}) \in {<<>>, ProductionLoop(prod.Production, tStat)}
    /\ Sel(b, {"consumption", "net"}) \in {<<>>, ConsumptionLoop(prod.Consumption, tStat)}
    /\ Sel(b, {"inverter"}) \in {<<>>, extractInverterStats(inverters, tStat)}
    /\ Sel(b, {"battery"}) \in {<<>>, extractBatteryStats(batteries, tStat)}

C33_Witness ==
  /\ Len(writes) = 1
  /\ Len(Sel(writes[1].points, {"production"})) = 2
  /\ Len(Sel(writes[1].points, {"consumption"})) = 1
  /\ Len(Sel(writes[1].points, {"net"})) = 1
  /\ Len(Sel(writes[1].points, {"inverter"})) = 2
  /\ Len(Sel(writes[1].points, {"battery"})) = 2

\* C34: in scrapeLoop of main.go a scrape that reported an invalid session
\* is always followed by the pause, which lasts one second and constructs no
\* client, before the loop gets back to the construction of a device client.
C34_PauseBeforeReconnect ==
  /\ [][(pc = "returned" /\ clientInvalidated)
          => (pc' = "pause" /\ nClients' = nClients /\ e' = e /\ ~connected')]_vars
  /\ [][(pc = "pause")
          => (pc' = "loop" /\ now' = now + 1 /\ nClients' = nClients /\ e' = e)]_vars
  /\ [][(pc' = "loop" /\ clientInvalidated /\ pc # "loop") => (pc \in {"pause", "backoff"})]_vars

C34_Witness ==
  pc = "loop" /\ ~connected /\ clientInvalidated /\ nClients = 2 /\ calls = <<Call("CommCheck", TRUE), Call("InvalidateSession", FALSE)>>

\* the required items of a configuration, in the order of the claim
RequiredItems ==
  <<"address", "serial", "authentication", "influxdb", "influxdb_bucket",
    "influxdb_token", "influxdb_org">>

\* the required items a configuration lacks; authentication is lacking when
\* neither username nor password nor token is given
MissingItems(c) ==
  { x \in {"address"} : c.Address = "" }
  \cup { x \in {"serial"} : c.SerialNumber = "" }
  \cup { x \in {"authentication"} : c.Username = "" /\ c.Password = "" /\ c.JWT = "" }
  \cup { x \in {"influxdb"} : c.InfluxDB = "" }
  \cup { x \in {"influxdb_bucket"} : c.InfluxDBBucket = "" }
  \cup { x \in {"influxdb_token"} : c.InfluxDBToken = "" }
  \cup { x \in {"influxdb_org"} : c.InfluxDBOrg = "" }

\* C35: when loadAndValidateConfig of main.go rejects the configuration of a
\* readable file, the error names the first missing item in the order
\* address, serial, authentication, influxdb, influxdb_bucket,
\* influxdb_token, influxdb_org; with exactly one item missing it names that
\* item.
C35_ErrorNamesFirstMissing ==
  (pc = "configError" /\ Readable(file)) =>
    /\ \E k \in 1..Len(RequiredItems) :
         /\ configErr = RequiredItems[k]
         /\ configErr \in MissingItems(cfg)
         /\ \A j \in 1..(k - 1) : RequiredItems[j] \notin MissingItems(cfg)
    /\ (Cardinality(MissingItems(cfg)) = 1 => MissingItems(cfg) = {configErr})

C35_Witness ==
  /\ pc = "configError"
  /\ MissingItems(cfg) = {"influxdb_bucket", "influxdb_token", "influxdb_org"}
  /\ configErr = "influxdb_bucket"

\* C36: after loadAndValidateConfig of main.go has succeeded the scrape
\* interval is at least 1 second, whatever interval the file gives, negative
\* ones included.
C36_PositiveInterval ==
  (pc = "configLoaded") => (cfg.Interval >= 1)

====
